---- MODULE Spec2Model ----
(***************************************************************************)
(* A model of blaze/objects/array.py: the Array handle, its construction   *)
(* and class specialisation, its query / coercion methods and the operator *)
(* methods injected from the ufunc catalogue.                              *)
(*                                                                         *)
(* The data descriptors, the datashape types, the ufuncs and the evaluator *)
(* are collaborators whose code is outside array.py; they are modelled     *)
(* from the specification's description of their boundary.                 *)
(***************************************************************************)
EXTENDS Integers, Sequences, FiniteSets, TLC

VARIABLES
  arrays,   \* the live Array objects, in order of creation
  store,    \* the backing storage the concrete descriptors view: cell -> value
  dicts,    \* the dict objects: dict id -> the set of keys it holds
  ret       \* the outcome of the last call

vars == <<arrays, store, dicts, ret>>

(***************************************************************************)
(* Bounds of the model.                                                    *)
(***************************************************************************)
\* how many Array objects are kept alive at once
MaxArrays == 2
\* the interpreter's recursion limit (frames of __nonzero__)
MaxDepth == 3

None == "None"

(***************************************************************************)
(* Data descriptors and datashapes (collaborators).                        *)
(* A descriptor is a record                                                *)
(*   cls     its class: "DyND" (concrete) or "Deferred"                    *)
(*   measure the element type of its dshape                                *)
(*   shape   the dimensions of its dshape                                  *)
(*   strides, base  where its elements live in the backing storage         *)
(*   expr    for a Deferred descriptor the pair (term, context)            *)
(***************************************************************************)
Cells == 0 .. 3
Values == {0, 1}
\* what a caller may try to assign: 2 stands for a value the element type rejects
AssignArgs == {0, 1, 2}

RecordFields == <<"x", "y">>
FieldType == [x |-> "int32", y |-> "float64"]
FieldOffset == [x |-> 0, y |-> 1]

IntTypes == {"int32", "int64"}
FloatTypes == {"float32", "float64"}
ComplexTypes == {"complex64", "complex128"}

DyND(measure, shape, strides, base) ==
  [cls |-> "DyND", measure |-> measure, shape |-> shape,
   strides |-> strides, base |-> base, expr |-> None]

DeferredDescriptor(measure, shape, expr) ==
  [cls |-> "Deferred", measure |-> measure, shape |-> shape,
   strides |-> <<>>, base |-> 0, expr |-> expr]

\* something that is no data descriptor (a Python list, say)
NotADescriptor ==
  [cls |-> "list", measure |-> None, shape |-> <<>>,
   strides |-> <<>>, base |-> 0, expr |-> None]

IsDataDescriptor(d) == d.cls \in {"DyND", "Deferred"}

\* descriptor.capabilities.deferred
CapDeferred(d) == d.cls = "Deferred"

\* len(descriptor.dshape): the dimensions and the measure
DshapeLen(d) == Len(d.shape) + 1

\* how a call ends: a returned value or a raised exception
Raise(exc) == [ok |-> FALSE, exc |-> exc, val |-> None]
Return(v) == [ok |-> TRUE, exc |-> None, val |-> v]

\* descriptor.__getitem__(key). A key is a tuple of integers: <<>> is the
\* empty tuple (), <<k>> the integer k.
RECURSIVE DescGetItem(_, _)
DescGetItem(d, key) ==
  IF Len(key) = 0 THEN Return(d)
  ELSE IF Len(d.shape) = 0 THEN Raise("IndexError")
  ELSE IF Head(key) < 0 \/ Head(key) >= Head(d.shape) THEN Raise("IndexError")
  ELSE IF d.cls = "Deferred"
       THEN DescGetItem([d EXCEPT !.shape = Tail(d.shape),
                                  !.expr = << <<"getitem", d.expr[1], Head(key)>>, d.expr[2] >>],
                        Tail(key))
       ELSE DescGetItem([d EXCEPT !.shape = Tail(d.shape),
                                  !.strides = Tail(d.strides),
                                  !.base = d.base + Head(key) * Head(d.strides)],
                        Tail(key))

FieldNames == {RecordFields[i] : i \in 1 .. Len(RecordFields)}

\* descriptor.getattr(name): the projection of a record field
DescGetAttr(d, name) ==
  IF d.measure # "record" \/ name \notin FieldNames
  THEN Raise("AttributeError")
  ELSE IF d.cls = "Deferred"
       THEN Return([d EXCEPT !.measure = FieldType[name],
                             !.expr = << <<"getattr", d.expr[1], name>>, d.expr[2] >>])
       ELSE Return([d EXCEPT !.measure = FieldType[name],
                             !.base = d.base + FieldOffset[name]])

\* the storage cells a concrete descriptor views
RECURSIVE DescCells(_)
DescCells(d) ==
  IF Len(d.shape) = 0 THEN {d.base}
  ELSE UNION {DescCells(DescGetItem(d, <<k>>).val) : k \in 0 .. Head(d.shape) - 1}

\* descriptor.__iter__(): the descriptors of the leading dimension, in order
RECURSIVE DescItems(_, _)
DescItems(d, n) ==
  IF n = 0 THEN <<>> ELSE Append(DescItems(d, n - 1), DescGetItem(d, <<n - 1>>).val)

DescIter(d) ==
  IF Len(d.shape) = 0 THEN Raise("IndexError")
  ELSE Return(DescItems(d, Head(d.shape)))

\* descriptor.__setitem__(key, val): the storage after the call, or the error
DescSetItem(d, key, val, st) ==
  LET sub == DescGetItem(d, key) IN
  IF d.cls = "Deferred" THEN Raise("NotImplementedError")
  ELSE IF ~sub.ok THEN sub
  ELSE IF val \notin Values THEN Raise("TypeError")
  ELSE Return([c \in Cells |-> IF c \in DescCells(sub.val) THEN val ELSE st[c]])

(***************************************************************************)
(* The Array object.  An Array is a record                                 *)
(*   cls     "Array": it is an instance of Array                           *)
(*   data    its descriptor (self._data)                                   *)
(*   axes, labels, expr  the attributes __init__ sets                      *)
(*   user    the id of the dict object self.user refers to                 *)
(*   props   the attributes of the class __init__ rebinds self to          *)
(***************************************************************************)
\* the dict object the default of the `user` parameter is bound to when the
\* def statement runs
DefaultUser == "default"
\* the dict objects a caller holds and may pass as `user`
CallerDicts == {"d1"}
Omitted == "omitted"

Repeat(x, n) == [i \in 1 .. n |-> x]

\* Python's `a or b` on an argument that is None or a list
OrDefault(arg, default) == IF arg = None \/ arg = <<>> THEN default ELSE arg

\* a variant of InjectedProps that injects the scalar coercions for the element
\* type whatever the shape
InjectedProps_AnyShape(data) ==
  IF data.measure \in IntTypes THEN {"__int__"}
  ELSE IF data.measure \in FloatTypes THEN {"__float__"}
  ELSE IF data.measure \in ComplexTypes THEN {"__complex__", "real", "imag"}
  ELSE IF data.measure = "record" THEN FieldNames
  ELSE {}

\* the attributes injected into the instance's class
InjectedProps(data) ==
  LET recordProps == IF data.measure = "record" THEN FieldNames ELSE {} IN
  IF data.measure \in IntTypes /\ Len(data.shape) = 0 THEN {"__int__"}
  ELSE IF data.measure \in FloatTypes /\ Len(data.shape) = 0 THEN {"__float__"}
  ELSE IF data.measure \in ComplexTypes
       THEN (IF DshapeLen(data) = 1 THEN {"__complex__"} ELSE {}) \cup {"real", "imag"}
  ELSE recordProps

\* a variant of ArrayInit that never captures the descriptor's expression
ArrayInit_NoExpr(data, axes, labels, user) ==
  IF ~IsDataDescriptor(data) THEN Raise("TypeError")
  ELSE Return([cls |-> "Array", data |-> data,
               axes |-> OrDefault(axes, Repeat("", DshapeLen(data) - 1)),
               labels |-> OrDefault(labels, Repeat(None, DshapeLen(data) - 1)),
               user |-> user,
               expr |-> None,
               props |-> InjectedProps(data)])

\* Array.__init__(data, axes, labels, user)
ArrayInit(data, axes, labels, user) ==
  IF ~IsDataDescriptor(data) THEN Raise("TypeError")
  ELSE Return([cls |-> "Array", data |-> data,
               axes |-> OrDefault(axes, Repeat("", DshapeLen(data) - 1)),
               labels |-> OrDefault(labels, Repeat(None, DshapeLen(data) - 1)),
               user |-> user,
               expr |-> IF data.cls = "Deferred" THEN data.expr ELSE None,
               props |-> InjectedProps(data)])

\* Array(data): every parameter but data left to its default
ArrayOf(data) == ArrayInit(data, None, None, DefaultUser)

\* Array.dshape and Array.deferred
ArrayDshape(a) == <<a.data.shape, a.data.measure>>
ArrayDeferred(a) == CapDeferred(a.data)

\* the names an attribute lookup on an Array finds
ClassAttrs == {"dshape", "deferred", "view", "__array__", "__iter__",
               "__getitem__", "__setitem__", "__len__", "__nonzero__",
               "__str__", "__repr__"}
InstanceAttrs == {"_data", "axes", "labels", "user", "expr"}
HasAttr(a, name) == name \in ClassAttrs \cup InstanceAttrs \cup a.props

\* Array.__getitem__(key)
ArrayGetItem(a, key) ==
  LET sub == DescGetItem(a.data, key) IN
  IF sub.ok THEN ArrayOf(sub.val) ELSE sub

\* the property _named_property(name) builds
NamedProperty(a, name) ==
  LET sub == DescGetAttr(a.data, name) IN
  IF sub.ok THEN ArrayOf(sub.val) ELSE sub

\* Array.__len__()
ArrayLen(a) == IF Len(a.data.shape) > 0 THEN Head(a.data.shape) ELSE 1

\* Array.view(): self.capabilities is looked up on the Array itself
ArrayView(a) ==
  IF ~HasAttr(a, "capabilities") THEN Raise("AttributeError")
  ELSE LET cap == NamedProperty(a, "capabilities") IN
       IF ~cap.ok THEN cap
       ELSE IF ~ArrayDeferred(cap.val) THEN Raise("ValueError")
       ELSE Return(<<"dump", a.expr[1]>>)

\* Array.__iter__(): the descriptor's own iterator is returned
ArrayIter(a) == DescIter(a.data)

\* a variant of ArraySetItem that swallows the descriptor's error
ArraySetItem_Swallow(a, key, val, st) ==
  LET r == DescSetItem(a.data, key, val, st) IN
  IF r.ok THEN r ELSE Return(st)

\* Array.__setitem__(key, val): the storage after the call, or the error
ArraySetItem(a, key, val, st) == DescSetItem(a.data, key, val, st)

\* bool(item) on an Array: Python 2 calls item.__nonzero__(), Python 3 knows
\* no __nonzero__ and falls back on item.__len__()
Interpreters == {"py2", "py3"}

\* Array.__nonzero__() in a frame at the given depth of the call stack.
\* reads counts the __getitem__ calls made, evals the evaluator calls.
RECURSIVE ArrayNonzero(_, _, _)
ArrayNonzero(a, py, depth) ==
  IF depth > MaxDepth
  THEN [ok |-> FALSE, exc |-> "RuntimeError", val |-> None, reads |-> 0, evals |-> 0]
  ELSE IF ArrayLen(a) = 1 /\ Len(a.data.shape) <= 1
  THEN LET item == ArrayGetItem(a, IF Len(a.data.shape) = 1 THEN <<0>> ELSE <<>>) IN
       IF ~item.ok
       THEN [ok |-> FALSE, exc |-> item.exc, val |-> None, reads |-> 1, evals |-> 0]
       ELSE IF py = "py3"
       THEN [ok |-> TRUE, exc |-> None, val |-> (ArrayLen(item.val) # 0),
             reads |-> 1, evals |-> 0]
       ELSE LET b == ArrayNonzero(item.val, py, depth + 1) IN
            [b EXCEPT !.reads = @ + 1]
  ELSE [ok |-> FALSE, exc |-> "ValueError", val |-> None, reads |-> 0, evals |-> 0]

(***************************************************************************)
(* The evaluator (collaborator): compute.eval.eval(arr) returns a concrete *)
(* Array.  A deferred Array is materialised into the storage cell `mat`.   *)
(***************************************************************************)
Evaluate(a, mat) ==
  IF ArrayDeferred(a)
  THEN ArrayOf(DyND(a.data.measure, a.data.shape,
                    Repeat(0, Len(a.data.shape)), mat)).val
  ELSE a

\* descriptor.dynd_arr() of a zero-dimensional concrete descriptor
DyndArr(d, st) == st[d.base]

PyInt(v) == <<"int", v>>
PyFloat(v) == <<"float", v>>
PyComplex(v) == <<"complex", v, 0>>

CoercionMethods == {"__int__", "__float__", "__complex__"}

\* int(a), float(a), complex(a): the injected method, when the class has it
ArrayCoerce(a, method, st, mat) ==
  IF method \notin a.props
  THEN [ok |-> FALSE, exc |-> "TypeError", val |-> None, reads |-> 0, evals |-> 0]
  ELSE LET e == Evaluate(a, mat)
           v == DyndArr(e.data, st) IN
       [ok |-> TRUE, exc |-> None,
        val |-> IF method = "__int__" THEN PyInt(v)
                ELSE IF method = "__float__" THEN PyFloat(v)
                ELSE PyComplex(v),
        reads |-> 0, evals |-> 1]

(***************************************************************************)
(* The operator methods.  An operand is <<"Array", i>> (the i-th live      *)
(* Array) or <<"scalar", v>> (a Python number).                            *)
(***************************************************************************)
BinaryCatalogue ==
  << <<"add", "add">>, <<"subtract", "sub">>, <<"multiply", "mul">>,
     <<"true_divide", "truediv">>, <<"mod", "mod">>,
     <<"floor_divide", "floordiv">>, <<"equal", "eq">>, <<"not_equal", "ne">>,
     <<"greater", "gt">>, <<"greater_equal", "ge">>, <<"less_equal", "le">>,
     <<"less", "lt">>, <<"divide", "div">>, <<"bitwise_and", "and">>,
     <<"bitwise_or", "or">>, <<"bitwise_xor", "xor">>, <<"power", "pow">> >>

UnaryCatalogue == << <<"bitwise_not", "invert">>, <<"negative", "neg">> >>

\* a call of the ufunc f: what it was called with
UfuncCall(f, args) == [ufunc |-> f, args |-> args]

\* binding(f): binder(self, *args) calls f(self, *args)
Binding(f, self, args) == UfuncCall(f, <<self>> \o args)

\* a variant of RUfunc that passes the operands in the order it got them
RUfunc_Unswapped(f, self, other) == UfuncCall(f, <<self, other>>)

\* __rufunc__(f): __rop__(self, other) calls f(other, self)
RUfunc(f, self, other) == UfuncCall(f, <<other, self>>)

\* binding(__rufunc__(f)): binder(self, *args) calls __rop__(self, *args)
BindingRUfunc(f, self, args) == RUfunc(f, self, args[1])

\* the methods _inject_special_binary and _inject_special set on Array:
\* <<"__", n>> is '__%s__' % n and <<"__r", n>> is '__r%s__' % n
SpecialMethods ==
  {<<"__", BinaryCatalogue[i][2]>> : i \in 1 .. Len(BinaryCatalogue)}
  \cup {<<"__r", BinaryCatalogue[i][2]>> : i \in 1 .. Len(BinaryCatalogue)}
  \cup {<<"__", UnaryCatalogue[i][2]>> : i \in 1 .. Len(UnaryCatalogue)}

UfuncOf(catalogue, special) ==
  LET i == CHOOSE i \in 1 .. Len(catalogue) : catalogue[i][2] = special IN
  catalogue[i][1]

IsBinary(special) == \E i \in 1 .. Len(BinaryCatalogue) : BinaryCatalogue[i][2] = special
IsUnary(special) == \E i \in 1 .. Len(UnaryCatalogue) : UnaryCatalogue[i][2] = special

\* the call a special method makes when invoked as self.method(*args)
InvokeSpecial(method, self, args) ==
  IF method[1] = "__r"
  THEN BindingRUfunc(UfuncOf(BinaryCatalogue, method[2]), self, args)
  ELSE IF IsBinary(method[2])
  THEN Binding(UfuncOf(BinaryCatalogue, method[2]), self, args)
  ELSE Binding(UfuncOf(UnaryCatalogue, method[2]), self, args)

\* _ufunc_to_property(uf): the property calls uf(self)
UfuncProperty(uf, self) == UfuncCall(uf, <<self>>)

\* the ufuncs (collaborator): a call returns a deferred Array whose pending
\* expression is the application of the ufunc to its operands' terms
OperandTerm(x, as) ==
  IF x[1] = "Array"
  THEN (IF as[x[2]].expr # None THEN as[x[2]].expr[1] ELSE <<"leaf", as[x[2]].data>>)
  ELSE x

UfuncResult(call, as) ==
  LET first == CHOOSE k \in 1 .. Len(call.args) : call.args[k][1] = "Array"
      d == as[call.args[first][2]].data IN
  ArrayOf(DeferredDescriptor(d.measure, d.shape,
            << <<call.ufunc, [k \in 1 .. Len(call.args) |-> OperandTerm(call.args[k], as)]>>,
               "context" >>))

(***************************************************************************)
(* The state machine.                                                      *)
(***************************************************************************)
\* the descriptors a caller constructs Arrays from
Vec == DyND("int32", <<2>>, <<1>>, 0)
One == DyND("int32", <<1>>, <<1>>, 1)
Empty == DyND("int32", <<0>>, <<1>>, 0)
Mat == DyND("float64", <<1, 2>>, <<2, 1>>, 0)
FloatScalar == DyND("float64", <<>>, <<>>, 1)
Rec == DyND("record", <<2>>, <<2>>, 0)
Cx == DyND("complex64", <<>>, <<>>, 0)
CxVec == DyND("complex128", <<2>>, <<1>>, 0)
DefVec == DeferredDescriptor("int32", <<2>>, << <<"term">>, "context" >>)
DefScalar == DeferredDescriptor("int64", <<>>, << <<"term">>, "context" >>)

AxesArgs == {None, <<>>, <<"row">>, <<"row", "col">>}
LabelArgs == {None, <<>>, <<"L">>}
Keys == {<<>>, <<0>>, <<1>>, <<2>>}
AttrArgs == FieldNames \cup {"real", "imag"}
Scalars == {<<"scalar", 5>>}

MetaKeys == {"source"}
MetaVals == {"a", "b"}
Absent == "absent"

\* the storage cells the evaluator may materialise a result into
ScratchCells == {2, 3}

NoCall == [ufunc |-> None, args |-> <<>>]

\* what ret keeps of a call: the call, how it ended, what it did on the way,
\* and for a mutating call the state it started from
Outcome(op, self, args, r, reads, evals, call, old) ==
  [op |-> op, self |-> self, args |-> args, ok |-> r.ok, exc |-> r.exc,
   val |-> r.val, reads |-> reads, evals |-> evals, call |-> call, old |-> old]

\* the state a mutating call starts from
Snapshot == [arrays |-> arrays, store |-> store, dicts |-> dicts]

\* a new Array stays alive while there is room for it
Alloc(r) == IF r.ok /\ Len(arrays) < MaxArrays THEN Append(arrays, r.val) ELSE arrays

Init ==
  /\ arrays = <<>>
  /\ store = [c \in Cells |-> c % 2]
  /\ dicts = [d \in {DefaultUser} \cup CallerDicts |-> [k \in MetaKeys |-> Absent]]
  /\ ret = Outcome("init", 0, <<>>, Return(None), 0, 0, NoCall, None)

\* Array(data, axes, labels, user), user possibly omitted
Construct(data, axes, labels, user) ==
  LET r == ArrayInit(data, axes, labels, IF user = Omitted THEN DefaultUser ELSE user) IN
  /\ Len(arrays) < MaxArrays
  /\ arrays' = Alloc(r)
  /\ ret' = Outcome("construct", 0, <<data, axes, labels, user>>, r, 0, 0, NoCall, None)
  /\ UNCHANGED <<store, dicts>>

\* arrays[i][key]
GetItem(i, key) ==
  LET r == ArrayGetItem(arrays[i], key) IN
  /\ arrays' = Alloc(r)
  /\ ret' = Outcome("getitem", i, <<key>>, r, 1, 0, NoCall, None)
  /\ UNCHANGED <<store, dicts>>

\* arrays[i].name for a record field or real / imag; the Array a ufunc
\* returns is reported and not kept
GetAttr(i, name) ==
  LET a == arrays[i]
      call == IF name \in a.props \ FieldNames
              THEN UfuncProperty(name, <<"Array", i>>) ELSE NoCall
      r == IF name \notin a.props THEN Raise("AttributeError")
           ELSE IF name \in FieldNames THEN NamedProperty(a, name)
           ELSE UfuncResult(call, arrays) IN
  /\ arrays' = IF name \in FieldNames THEN Alloc(r) ELSE arrays
  /\ ret' = Outcome("getattr", i, <<name>>, r, 0, 0, call, None)
  /\ UNCHANGED <<store, dicts>>

\* arrays[i].view()
View(i) ==
  /\ ret' = Outcome("view", i, <<>>, ArrayView(arrays[i]), 0, 0, NoCall, None)
  /\ UNCHANGED <<arrays, store, dicts>>

\* arrays[i].method(*args) for an injected operator method; the Array the
\* ufunc returns is reported and not kept
Special(i, method, args) ==
  LET call == InvokeSpecial(method, <<"Array", i>>, args) IN
  /\ ret' = Outcome("special", i, <<method, args>>, UfuncResult(call, arrays),
                    0, 0, call, None)
  /\ UNCHANGED <<arrays, store, dicts>>

\* arrays[i][key] = val
SetItem(i, key, val) ==
  LET r == ArraySetItem(arrays[i], key, val, store) IN
  /\ store' = IF r.ok THEN r.val ELSE store
  /\ ret' = Outcome("setitem", i, <<key, val>>,
                    IF r.ok THEN Return(None) ELSE r, 0, 0, NoCall, Snapshot)
  /\ UNCHANGED <<arrays, dicts>>

\* len(arrays[i])
Length(i) ==
  /\ ret' = Outcome("len", i, <<>>, Return(ArrayLen(arrays[i])), 0, 0, NoCall, None)
  /\ UNCHANGED <<arrays, store, dicts>>

\* arrays[i].__nonzero__()
Nonzero(i, py) ==
  LET r == ArrayNonzero(arrays[i], py, 1) IN
  /\ ret' = Outcome("nonzero", i, <<py>>, r, r.reads, r.evals, NoCall, None)
  /\ UNCHANGED <<arrays, store, dicts>>

\* int(arrays[i]), float(arrays[i]), complex(arrays[i])
Coerce(i, method, mat) ==
  LET r == ArrayCoerce(arrays[i], method, store, mat) IN
  /\ ret' = Outcome("coerce", i, <<method>>, r, r.reads, r.evals, NoCall, None)
  /\ UNCHANGED <<arrays, store, dicts>>

\* list(iter(arrays[i])): the elements the iterator yields, in order
Iterate(i) ==
  /\ ret' = Outcome("iter", i, <<>>, ArrayIter(arrays[i]), 0, 0, NoCall, None)
  /\ UNCHANGED <<arrays, store, dicts>>

\* arrays[i].user[key] = val
UserPut(i, key, val) ==
  /\ dicts' = [dicts EXCEPT ![arrays[i].user][key] = val]
  /\ ret' = Outcome("userput", i, <<key, val>>, Return(None), 0, 0, NoCall, Snapshot)
  /\ UNCHANGED <<arrays, store>>

Live == 1 .. Len(arrays)
Operands == {<<"Array", j>> : j \in Live} \cup Scalars

\* Construction, indexing, attribute access and view: a run constructs one
\* Array, with or without axes and labels, and derives the others from it.
LifecycleRoots == {Vec, Mat, Rec, Cx, CxVec, DefVec, NotADescriptor}
Next ==
  \/ \E d \in LifecycleRoots, ax \in AxesArgs, lb \in LabelArgs :
       arrays = <<>> /\ Construct(d, ax, lb, Omitted)
  \/ \E i \in Live, k \in Keys : GetItem(i, k)
  \/ \E i \in Live, n \in AttrArgs : GetAttr(i, n)
  \/ \E i \in Live : View(i)

Spec == Init /\ [][Next]_vars

\* The operator methods, on concrete and deferred operands.
OpsRoots == {Vec, DefScalar}
NextOps ==
  \/ \E d \in OpsRoots : Construct(d, None, None, Omitted)
  \/ \E i \in Live, m \in SpecialMethods, x \in Operands :
       /\ m[1] = "__" => ~IsUnary(m[2])
       /\ Special(i, m, <<x>>)
  \/ \E i \in Live, m \in SpecialMethods :
       /\ m[1] = "__" /\ IsUnary(m[2])
       /\ Special(i, m, <<>>)

SpecOps == Init /\ [][NextOps]_vars

\* The queries, the coercions and index assignment.
EvalRoots == {Vec, One, Empty, Mat, FloatScalar, Cx, DefScalar}
NextEval ==
  \/ \E d \in EvalRoots : arrays = <<>> /\ Construct(d, None, None, Omitted)
  \/ \E i \in Live, k \in Keys : GetItem(i, k)
  \/ \E i \in Live, k \in Keys, v \in AssignArgs : SetItem(i, k, v)
  \/ \E i \in Live : Length(i)
  \/ \E i \in Live, py \in Interpreters : Nonzero(i, py)
  \/ \E i \in Live, m \in CoercionMethods, mat \in ScratchCells : Coerce(i, m, mat)
  \/ \E i \in Live : Iterate(i)

SpecEval == Init /\ [][NextEval]_vars

\* The user meta-data.
MetaRoots == {Vec, Rec}
NextMeta ==
  \/ \E d \in MetaRoots, u \in {Omitted} \cup CallerDicts :
       Construct(d, None, None, u)
  \/ \E i \in Live : GetItem(i, <<0>>)
  \/ \E i \in Live : GetAttr(i, "x")
  \/ \E i \in Live, k \in MetaKeys, v \in MetaVals : UserPut(i, k, v)

SpecMeta == Init /\ [][NextMeta]_vars

(***************************************************************************)
(* The claims.                                                             *)
(***************************************************************************)
\* the last call returned an Array
ReturnedArray ==
  ret.op \in {"construct", "getitem", "getattr", "special"} /\ ret.ok

Dims(a) == Len(a.data.shape)

ExprIffDeferred(a) == (a.expr # None) <=> ArrayDeferred(a)

\* C1: every Array produced by construction, indexing or attribute access,
\* live or just returned, carries a pending expression exactly when its
\* deferred query is true.
C1_ExprIffDeferred ==
  /\ \A i \in Live : ExprIffDeferred(arrays[i])
  /\ ReturnedArray => ExprIffDeferred(ret.val)

\* C1 witness: indexing a deferred Array returned a deferred Array that
\* carries an expression of its own.
C1_Witness ==
  /\ ret.op = "getitem" /\ ret.ok
  /\ ArrayDeferred(ret.val) /\ ret.val.expr # None
  /\ ret.val.expr # arrays[ret.self].expr

AxesLabelsMatchDims(a) == Len(a.axes) = Dims(a) /\ Len(a.labels) = Dims(a)

\* C2 (as claimed): every Array produced, live or just returned, has as many
\* axes and as many labels as its descriptor's shape has dimensions.
C2_AxesLabelsMatchDims ==
  /\ \A i \in Live : AxesLabelsMatchDims(arrays[i])
  /\ ReturnedArray => AxesLabelsMatchDims(ret.val)

ConcreteNotDeferred(a) == a.data.cls # "Deferred" => ~ArrayDeferred(a)

\* C3 (as claimed): an Array over a non-deferred descriptor reports itself not
\* deferred, and view() on it raises the ValueError and no other error.
C3_ViewOnConcreteRaisesValueError ==
  /\ \A i \in Live : ConcreteNotDeferred(arrays[i])
  /\ ReturnedArray => ConcreteNotDeferred(ret.val)
  /\ (ret.op = "view" /\ arrays[ret.self].data.cls # "Deferred")
       => (~ret.ok /\ ret.exc = "ValueError")

\* the Array the last call was made on
Self == arrays[ret.self]

\* the scalar coercion that matches an element type
MatchingCoercion(measure) ==
  IF measure \in IntTypes THEN "__int__"
  ELSE IF measure \in FloatTypes THEN "__float__"
  ELSE None

\* the last call was the matching scalar coercion on an Array of integer or
\* float elements whose length is not 1
C4_Case ==
  /\ ret.op = "coerce"
  /\ Self.data.measure \in IntTypes \cup FloatTypes
  /\ ret.args[1] = MatchingCoercion(Self.data.measure)
  /\ ArrayLen(Self) # 1

\* C4 (as claimed): the coercion then fails with a NotScalarError.
C4_FailsWithNotScalarError ==
  C4_Case => (~ret.ok /\ ret.exc = "NotScalarError")

\* C4 (amended): the coercion then fails with a TypeError, because no coercion
\* method was injected, and the evaluator is not called.
C4_FailsWithTypeError ==
  C4_Case => (~ret.ok /\ ret.exc = "TypeError" /\ ret.evals = 0)

\* C4 witness: int() was tried on a two-element int32 Array and failed.
C4_Witness ==
  /\ C4_Case /\ ~ret.ok
  /\ ArrayLen(Self) = 2 /\ Self.data.measure = "int32"

\* C5 (as claimed): the evaluator is called exactly once by a scalar coercion
\* and by a truth-value extraction, and by no other call.
C5_EvaluatorCalledOncePerExtraction ==
  /\ (ret.op = "coerce" /\ ret.args[1] \in Self.props) => ret.evals = 1
  /\ (ret.op = "nonzero" /\ ArrayLen(Self) = 1 /\ Dims(Self) <= 1) => ret.evals = 1
  /\ ret.op \notin {"coerce", "nonzero"} => ret.evals = 0

RECURSIVE Product(_)
Product(shape) == IF Len(shape) = 0 THEN 1 ELSE Head(shape) * Product(Tail(shape))
NumElements(a) == Product(a.data.shape)

\* the sole element of a concrete one-element Array
SoleElement(a) == store[CHOOSE c \in DescCells(a.data) : TRUE]

\* C6 (as claimed): __nonzero__ on a one-element Array of at most one
\* dimension returns the truth value of the element; on an Array of two or
\* more elements it raises the ValueError without reading an element.
C6_TruthValueOfSoleElement ==
  ret.op = "nonzero" =>
    /\ (ArrayLen(Self) = 1 /\ Dims(Self) <= 1 /\ Self.data.cls = "DyND")
         => (ret.ok /\ ret.val = (SoleElement(Self) # 0))
    /\ NumElements(Self) >= 2
         => (~ret.ok /\ ret.exc = "ValueError" /\ ret.reads = 0)

\* the ufunc the catalogue binds to a special name
CatalogueUfunc(special) ==
  LET all == BinaryCatalogue \o UnaryCatalogue
      k == CHOOSE k \in 1 .. Len(all) : all[k][2] = special IN
  all[k][1]

\* C7: a direct binary method calls its ufunc with (self, other), a reflected
\* one with (other, self), a unary one with self alone; so a.__op__(b) and
\* b.__rop__(a) make the same call.
C7_OperandOrder ==
  /\ ret.op = "special" =>
       LET method == ret.args[1]
           args == ret.args[2]
           self == <<"Array", ret.self>> IN
       /\ ret.call.ufunc = CatalogueUfunc(method[2])
       /\ ret.call.args = IF method[1] = "__r" THEN <<args[1], self>>
                          ELSE IF Len(args) = 1 THEN <<self, args[1]>>
                          ELSE <<self>>
  /\ \A k \in 1 .. Len(BinaryCatalogue), i \in Live, j \in Live :
       LET n == BinaryCatalogue[k][2] IN
       InvokeSpecial(<<"__", n>>, <<"Array", i>>, << <<"Array", j>> >>)
         = InvokeSpecial(<<"__r", n>>, <<"Array", j>>, << <<"Array", i>> >>)

\* C7 witness: a reflected method was called on an Array with another
\* operand, and the ufunc received that operand first.
C7_Witness ==
  /\ ret.op = "special" /\ ret.args[1] = <<"__r", "sub">>
  /\ ret.args[2][1] # <<"Array", ret.self>>
  /\ ret.call = UfuncCall("subtract", <<ret.args[2][1], <<"Array", ret.self>> >>)
  /\ Len(arrays) = 2 /\ ret.args[2][1][1] = "Array"

\* C8: a[k] = v that the descriptor accepts leaves storage in which every
\* element of a[k] reads v; one the descriptor refuses raises the
\* descriptor's error and changes neither the Arrays nor the storage.
C8_SetItemDelegates ==
  ret.op = "setitem" =>
    LET a == ret.old.arrays[ret.self]
        key == ret.args[1]
        val == ret.args[2]
        d == DescSetItem(a.data, key, val, ret.old.store) IN
    /\ arrays = ret.old.arrays /\ dicts = ret.old.dicts
    /\ IF d.ok
       THEN /\ ret.ok
            /\ LET read == ArrayGetItem(Self, key) IN
               /\ read.ok
               /\ \A c \in DescCells(read.val.data) : store[c] = val
       ELSE /\ ~ret.ok /\ ret.exc = d.exc
            /\ store = ret.old.store

\* C8 witness: an assignment of 1 was accepted and the cell that held 0 now
\* holds 1.
C8_Witness ==
  /\ ret.op = "setitem" /\ ret.ok /\ ret.args = << <<0>>, 1 >>
  /\ Self.data = Vec /\ store[0] = 1

\* isinstance(x, Array)
IsArray(x) == x.cls = "Array"

\* C9 (as claimed): iterating an Array yields, for each descriptor its
\* descriptor's iterator yields and in that order, an Array wrapping it.
C9_IterYieldsArrays ==
  (ret.op = "iter" /\ ret.ok) =>
    LET ds == DescIter(Self.data).val IN
    /\ Len(ret.val) = Len(ds)
    /\ \A k \in 1 .. Len(ds) :
         IsArray(ret.val[k]) /\ ret.val[k].data = ds[k]

\* the Array was constructed without a `user` argument
NoUserArgument(a) == a.user = DefaultUser

\* the meta-data mapping of an Array
Metadata(a, ds) == ds[a.user]

\* C10 (as claimed): writing an entry of one Array's meta-data leaves the
\* meta-data of every other Array as it was, when both were constructed
\* without a `user` argument.
C10_MetadataIndependent ==
  ret.op = "userput" =>
    \A j \in Live :
      (j # ret.self /\ NoUserArgument(arrays[j]) /\ NoUserArgument(Self))
        => Metadata(arrays[j], dicts) = Metadata(arrays[j], ret.old.dicts)

====
